---- MODULE Spec2Model ----
(***************************************************************************)
(* Model of the dataset comparison pipeline (compareDatasets): two batched *)
(* embedding stages, the best-match scan, the batched diff-summary stage   *)
(* and the report write.  The program is one cooperative coroutine; every  *)
(* action below is one event-loop turn: the event that wakes the coroutine *)
(* together with everything the coroutine runs until it suspends again.    *)
(***************************************************************************)
EXTENDS Integers, Sequences, FiniteSets, TLC

\* ------------------------------------------------------------------ bounds
\* Largest datasetA.json / datasetB.json the model loads.
MaxLenA == 3
MaxLenB == 2
\* Group size of both batched stages.  The program sets 10; the model runs
\* the same loops with a smaller group so that runs of several groups fit
\* within MaxLenA.
BATCH_SIZE == 2

\* ----------------------------------------------------------- value domains
\* Vectors the embedding service may return.  They are axis-aligned unit
\* vectors, so every cosine is exactly -1, 0 or 1.
Vectors == {<<1, 0>>, <<0, 1>>, <<-1, 0>>}

\* message.content of a completion response; NoContent is a missing content.
NoContent == "<undefined>"
Contents == {" Skills updated ", NoContent}

NULL == "<null>"
NoDifferences == "No differences"
ErrorPlaceholder == "Error generating diff summary"

Min(a, b) == IF a < b THEN a ELSE b

\* ------------------------------------------------------------- pure helpers
\* String.prototype.trim on the modelled contents.
Trim(s) == IF s = " Skills updated " THEN "Skills updated" ELSE s

\* response.choices[0].message.content?.trim() ?? null
SummaryOf(content) == IF content = NoContent THEN NULL ELSE Trim(content)

\* Variant: the slice takes one element too many.
SliceOneMore(arr, from, to) == SubSeq(arr, from + 1, Min(to + 1, Len(arr)))

\* Array.prototype.slice(from, to) with 0-based from/to and to clamped.
Slice(arr, from, to) == SubSeq(arr, from + 1, Min(to, Len(arr)))

Dot(a, b) == a[1] * b[1] + a[2] * b[2]

Sqrt(n) == CHOOSE r \in 0..n : r * r = n

\* cosineSimilarity of the cos-similarity package: dot product over the
\* product of the magnitudes (exact on Vectors).
cosineSimilarity(a, b) == Dot(a, b) \div Sqrt(Dot(a, a) * Dot(b, b))

\* The for..of loop of findBestMatch from target k on.
RECURSIVE ScanTargets(_, _, _, _)
ScanTargets(entryA, targets, k, best) ==
  IF k > Len(targets) THEN best
  ELSE LET similarity == cosineSimilarity(entryA.embedding, targets[k].embedding)
       IN IF similarity > best.bestScore
          THEN ScanTargets(entryA, targets, k + 1,
                 [bestMatch |-> <<targets[k]>>, bestScore |-> similarity])
          ELSE ScanTargets(entryA, targets, k + 1, best)

\* Variant: the null check is missing and the source entry is handed back.
findBestMatchNoThrow(entryA, datasetBWithEmb) ==
  LET best == ScanTargets(entryA, datasetBWithEmb, 1,
                          [bestMatch |-> <<entryA>>, bestScore |-> -1])
  IN [thrown |-> FALSE, match |-> best.bestMatch[1], score |-> best.bestScore]

\* findBestMatch: bestMatch is <<>> for null; the result is thrown = TRUE for
\* the 'No match found' error and the MatchResult otherwise.
findBestMatch(entryA, datasetBWithEmb) ==
  LET best == ScanTargets(entryA, datasetBWithEmb, 1,
                          [bestMatch |-> <<>>, bestScore |-> -1])
  IN IF best.bestMatch = <<>>
     THEN [thrown |-> TRUE]
     ELSE [thrown |-> FALSE, match |-> best.bestMatch[1], score |-> best.bestScore]

\* The entry without its embedding (the object literals of compareDatasets).
Strip(e) == [id |-> e.id]

\* Loop condition and pause condition of both batched loops.
LoopContinues(i0, len) == i0 < len
\* Variant: the pause is also taken after a final group that is full.
PauseFollowsInclusive(i0, len) == i0 + BATCH_SIZE <= len

PauseFollows(i0, len) == i0 + BATCH_SIZE < len

\* -------------------------------------------------------------------- state
VARIABLES
  datasetA, datasetB,        \* the parsed input files
  pc,                        \* where compareDatasets is: load, embedA, embedB,
                             \* diff, save, done, aborted
  awaiting,                  \* what the coroutine is suspended on
  i,                         \* loop variable of the running batched stage
  batchPromises,             \* the promises of the running batch, by position
  embeddings,                \* accumulator of generateEmbeddingsWithBatching
  results,                   \* accumulator of generateDiffSummariesWithBatching
  datasetAWithEmbeddings, datasetBWithEmbeddings,
  comparisons,               \* matched pairs handed to the diff stage
  report,                    \* <<r>> once the report object is built, else <<>>
  reportFile,                \* comparison_report.json: <<>> or <<contents>>
  embedReqs,                 \* embedding requests in flight, <<dataset, index>>
  completionReqs,            \* completion requests in flight, by pair index
  pauses,                    \* inter-batch pauses started, per stage
  embedIssued,               \* embedding requests ever issued, per entry
  completionIssued,          \* completion requests ever issued, per pair
  error,                     \* the error that ended the run, "" when none
  returned,                  \* stages ("A", "B", "D") that have returned
  embedAnswer,               \* per embedding request: <<>> or <<outcome>>
  completionAnswer,          \* per completion request: <<>> or <<outcome>>
  reversed                   \* TRUE while every batch so far has settled in
                             \* the reverse of its input order

vars == <<datasetA, datasetB, pc, awaiting, i, batchPromises, embeddings,
          results, datasetAWithEmbeddings, datasetBWithEmbeddings, comparisons,
          report, reportFile, embedReqs, completionReqs, pauses, embedIssued,
          completionIssued, error, returned, embedAnswer, completionAnswer,
          reversed>>

\* History of the remote services' answers; no code reads it.
history == <<embedAnswer, completionAnswer, reversed>>

\* The mutable state as one record, so that a turn of the coroutine can be
\* written as a composition of the code's steps.
Cur ==
  [pc |-> pc, awaiting |-> awaiting, i |-> i, batchPromises |-> batchPromises,
   embeddings |-> embeddings, results |-> results,
   datasetAWithEmbeddings |-> datasetAWithEmbeddings,
   datasetBWithEmbeddings |-> datasetBWithEmbeddings,
   comparisons |-> comparisons, report |-> report, reportFile |-> reportFile,
   embedReqs |-> embedReqs, completionReqs |-> completionReqs,
   pauses |-> pauses, embedIssued |-> embedIssued,
   completionIssued |-> completionIssued, error |-> error,
   returned |-> returned]

Commit(s) ==
  \E r \in {s} :
    /\ pc' = r.pc /\ awaiting' = r.awaiting /\ i' = r.i
    /\ batchPromises' = r.batchPromises
    /\ embeddings' = r.embeddings /\ results' = r.results
    /\ datasetAWithEmbeddings' = r.datasetAWithEmbeddings
    /\ datasetBWithEmbeddings' = r.datasetBWithEmbeddings
    /\ comparisons' = r.comparisons
    /\ report' = r.report /\ reportFile' = r.reportFile
    /\ embedReqs' = r.embedReqs /\ completionReqs' = r.completionReqs
    /\ pauses' = r.pauses /\ embedIssued' = r.embedIssued
    /\ completionIssued' = r.completionIssued /\ error' = r.error
    /\ returned' = r.returned
    /\ UNCHANGED <<datasetA, datasetB>>

\* F applied to the value of v, with v evaluated once: an intermediate state
\* is built once and then handed on, as in the sequential code.
Bind(v, F(_)) == CHOOSE r \in {F(x) : x \in {v}} : TRUE

Input(ds) == IF ds = "A" THEN datasetA ELSE datasetB
StageOf(ds) == IF ds = "A" THEN "embedA" ELSE "embedB"
DatasetOf(stage) == IF stage = "embedA" THEN "A" ELSE "B"

Pending == [state |-> "pending"]
Fulfilled(v) == [state |-> "fulfilled", value |-> v]

AllFulfilled(promises) ==
  \A j \in 1..Len(promises) : promises[j].state = "fulfilled"

\* What `await Promise.all(batchPromises)` yields: the values by position.
PromiseAllValues(promises) == [j \in 1..Len(promises) |-> promises[j].value]

\* Variant: results are collected in completion order (first free position).
SettleInCompletionOrder(promises, j, v) ==
  LET free == {p \in 1..Len(promises) : promises[p].state = "pending"}
      first == CHOOSE p \in free : \A q \in free : p <= q
  IN [promises EXCEPT ![first] = Fulfilled(v)]

\* A promise of the batch settles: only its own position changes.
Settle(promises, j, v) == [promises EXCEPT ![j] = Fulfilled(v)]

\* ------------------------------------------------------------- report write
\* Variant: the count is taken from the target dataset.
SaveReportCountsTargets(s) ==
  [s EXCEPT !.pc = "save", !.awaiting = "writeFile",
            !.returned = @ \cup {"D"},
            !.report = <<[totalComparisons |-> Len(s.datasetBWithEmbeddings),
                          results |-> s.results]>>]

\* compareDatasets from the return of the diff stage to `await writeFile`.
SaveReport(s) ==
  [s EXCEPT !.pc = "save", !.awaiting = "writeFile",
            !.returned = @ \cup {"D"},
            !.report = <<[totalComparisons |-> Len(s.results),
                          results |-> s.results]>>]

\* --------------------------------------------------------------- diff stage
\* Variant: no short-circuit on an exact score.
CallsCompletionAlways(comparison) == TRUE

\* The synchronous part of one batch.map callback of the diff stage: TRUE
\* when the callback goes on to call generateDiffSummary.
CallsCompletion(comparison) == comparison.similarityScore # 1

ComparisonResult(comparison, diffSummary) ==
  [entryA |-> comparison.entryA, match |-> comparison.match,
   similarityScore |-> comparison.similarityScore, diffSummary |-> diffSummary]

\* Variant: the catch block returns null instead of the placeholder.
generateDiffSummaryNull(outcome) ==
  IF outcome.ok THEN SummaryOf(outcome.content) ELSE NULL

\* generateDiffSummary once the completion call has settled.
generateDiffSummary(outcome) ==
  IF outcome.ok THEN SummaryOf(outcome.content) ELSE ErrorPlaceholder

RECURSIVE DiffLoop(_, _)
\* Variant: the stage returns after its first batch.
JoinDiffBatchReturnsEarly(s) ==
  Bind([s EXCEPT !.results = @ \o PromiseAllValues(s.batchPromises)],
       LAMBDA s1 : SaveReport(s1))

\* `await Promise.all` of a diff batch resumes: push, then pause or loop on.
JoinDiffBatch(s) ==
  Bind([s EXCEPT !.results = @ \o PromiseAllValues(s.batchPromises)],
       LAMBDA s1 :
         IF PauseFollows(s1.i, Len(s1.comparisons))
         THEN [s1 EXCEPT !.awaiting = "setTimeout", !.pauses["D"] = @ + 1]
         ELSE DiffLoop(s1, s1.i + BATCH_SIZE))

\* Variant: a batch whose promises are all fulfilled at launch is never
\* resumed.
LaunchDiffBatchNoJoin(s, i0) ==
  LET batch == Slice(s.comparisons, i0, i0 + BATCH_SIZE)
      calls == {i0 + j : j \in {j \in 1..Len(batch) : CallsCompletion(batch[j])}}
  IN [s EXCEPT
        !.pc = "diff", !.awaiting = "Promise.all", !.i = i0,
        !.batchPromises =
          [j \in 1..Len(batch) |->
             IF CallsCompletion(batch[j]) THEN Pending
             ELSE Fulfilled(ComparisonResult(batch[j], NoDifferences))],
        !.completionReqs = @ \cup calls,
        !.completionIssued =
          [k \in DOMAIN @ |-> IF k \in calls THEN @[k] + 1 ELSE @[k]]]

\* One iteration of the diff loop up to its `await Promise.all`.
LaunchDiffBatch(s, i0) ==
  LET batch == Slice(s.comparisons, i0, i0 + BATCH_SIZE)
      calls == {i0 + j : j \in {j \in 1..Len(batch) : CallsCompletion(batch[j])}}
  IN Bind([s EXCEPT
             !.pc = "diff", !.awaiting = "Promise.all", !.i = i0,
             !.batchPromises =
               [j \in 1..Len(batch) |->
                  IF CallsCompletion(batch[j]) THEN Pending
                  ELSE Fulfilled(ComparisonResult(batch[j], NoDifferences))],
             !.completionReqs = @ \cup calls,
             !.completionIssued =
               [k \in DOMAIN @ |-> IF k \in calls THEN @[k] + 1 ELSE @[k]]],
          LAMBDA s1 :
            IF AllFulfilled(s1.batchPromises) THEN JoinDiffBatch(s1) ELSE s1)

DiffLoop(s, i0) ==
  IF LoopContinues(i0, Len(s.comparisons))
  THEN LaunchDiffBatch(s, i0)
  ELSE SaveReport(s)

generateDiffSummariesWithBatching(s) ==
  Bind([s EXCEPT !.results = <<>>], LAMBDA s1 : DiffLoop(s1, 0))

\* ----------------------------------------------------------------- matching
\* Variant: a source entry without a match is left out instead of fatal.
FindMatchesSkipping(s) ==
  LET srcs == s.datasetAWithEmbeddings
      tgts == s.datasetBWithEmbeddings
      RECURSIVE Pairs(_)
      Pairs(k) ==
        IF k > Len(srcs) THEN <<>>
        ELSE IF findBestMatch(srcs[k], tgts).thrown THEN Pairs(k + 1)
        ELSE <<[entryA |-> Strip(srcs[k]),
                match |-> Strip(findBestMatch(srcs[k], tgts).match),
                similarityScore |-> findBestMatch(srcs[k], tgts).score]>>
             \o Pairs(k + 1)
  IN Bind([s EXCEPT !.comparisons = Pairs(1)],
          LAMBDA s1 : generateDiffSummariesWithBatching(s1))

\* The datasetAWithEmbeddings.map(...) of compareDatasets and what follows:
\* a findBestMatch that throws ends the run.
FindMatches(s) ==
  LET srcs == s.datasetAWithEmbeddings
      tgts == s.datasetBWithEmbeddings
  IN IF \E k \in 1..Len(srcs) : findBestMatch(srcs[k], tgts).thrown
     THEN [s EXCEPT !.pc = "aborted", !.awaiting = "none",
                    !.error = "No match found"]
     ELSE Bind([s EXCEPT !.comparisons =
                  [k \in 1..Len(srcs) |->
                     [entryA |-> Strip(srcs[k]),
                      match |-> Strip(findBestMatch(srcs[k], tgts).match),
                      similarityScore |-> findBestMatch(srcs[k], tgts).score]]],
               LAMBDA s1 : generateDiffSummariesWithBatching(s1))

\* ---------------------------------------------------------- embedding stage
RECURSIVE EmbedLoop(_, _, _)
\* Variant: Promise.all is not awaited; the loop goes straight to the pause.
LaunchEmbeddingBatchNoAwait(s, ds, i0) ==
  LET batch == Slice(Input(ds), i0, i0 + BATCH_SIZE)
      calls == {<<ds, i0 + j>> : j \in 1..Len(batch)}
  IN [s EXCEPT
        !.pc = StageOf(ds), !.awaiting = "setTimeout", !.i = i0,
        !.batchPromises = [j \in 1..Len(batch) |-> Pending],
        !.embedReqs = @ \cup calls,
        !.embedIssued =
          [k \in DOMAIN @ |-> IF k \in calls THEN @[k] + 1 ELSE @[k]]]

\* One iteration of the embedding loop up to its `await Promise.all`: every
\* callback of batch.map issues its request before the loop suspends.
LaunchEmbeddingBatch(s, ds, i0) ==
  LET batch == Slice(Input(ds), i0, i0 + BATCH_SIZE)
      calls == {<<ds, i0 + j>> : j \in 1..Len(batch)}
  IN [s EXCEPT
        !.pc = StageOf(ds), !.awaiting = "Promise.all", !.i = i0,
        !.batchPromises = [j \in 1..Len(batch) |-> Pending],
        !.embedReqs = @ \cup calls,
        !.embedIssued =
          [k \in DOMAIN @ |-> IF k \in calls THEN @[k] + 1 ELSE @[k]]]

\* generateEmbeddingsWithBatching returns to compareDatasets, which goes on
\* with the next stage.
EmbedReturn(s, ds) ==
  IF ds = "A"
  THEN Bind([s EXCEPT !.datasetAWithEmbeddings = s.embeddings,
                      !.returned = @ \cup {"A"},
                      !.embeddings = <<>>],
            LAMBDA s1 : EmbedLoop(s1, "B", 0))
  ELSE Bind([s EXCEPT !.datasetBWithEmbeddings = s.embeddings,
                      !.returned = @ \cup {"B"}],
            LAMBDA s1 : FindMatches(s1))

EmbedLoop(s, ds, i0) ==
  IF LoopContinues(i0, Len(Input(ds)))
  THEN LaunchEmbeddingBatch(s, ds, i0)
  ELSE EmbedReturn(s, ds)

\* `await Promise.all` of an embedding batch resumes.
JoinEmbeddingBatch(s, ds) ==
  Bind([s EXCEPT !.embeddings = @ \o PromiseAllValues(s.batchPromises)],
       LAMBDA s1 :
         IF PauseFollows(s1.i, Len(Input(ds)))
         THEN [s1 EXCEPT !.awaiting = "setTimeout", !.pauses[ds] = @ + 1]
         ELSE EmbedLoop(s1, ds, s1.i + BATCH_SIZE))

\* A fulfilled embedding promise; the last one of the batch resumes the loop.
EmbeddingFulfilled(s, key, vec) ==
  LET ds == key[1]
      entry == Input(ds)[key[2]]
  IN Bind([s EXCEPT
             !.embedReqs = @ \ {key},
             !.batchPromises =
               Settle(@, key[2] - s.i, [id |-> entry.id, embedding |-> vec])],
          LAMBDA s1 :
            IF AllFulfilled(s1.batchPromises)
            THEN JoinEmbeddingBatch(s1, ds) ELSE s1)

\* Variant: the failure is caught and a substitute vector is used.
EmbeddingCaught(s, key) == EmbeddingFulfilled(s, key, <<1, 0>>)

\* A rejected embedding promise rejects Promise.all, the stage and
\* compareDatasets: nothing catches it.
EmbeddingRejected(s, key) ==
  [s EXCEPT !.pc = "aborted", !.awaiting = "none",
            !.embedReqs = @ \ {key},
            !.batchPromises[key[2] - s.i] = [state |-> "rejected"],
            !.error = "embedding failed"]

\* Variant: a failed completion call is issued once more instead of settling.
DiffSettledRetry(s, k, outcome) ==
  IF ~outcome.ok /\ s.completionIssued[k] < 2
  THEN [s EXCEPT !.completionIssued[k] = @ + 1]
  ELSE Bind([s EXCEPT
               !.completionReqs = @ \ {k},
               !.batchPromises =
                 Settle(@, k - s.i,
                        ComparisonResult(s.comparisons[k],
                                         generateDiffSummary(outcome)))],
            LAMBDA s1 :
              IF AllFulfilled(s1.batchPromises) THEN JoinDiffBatch(s1) ELSE s1)

\* Variant: the tasks of a batch share one result variable, so a settling
\* task also fills the slots of the tasks still pending.
DiffSettledShared(s, k, outcome) ==
  LET r == ComparisonResult(s.comparisons[k], generateDiffSummary(outcome))
  IN Bind([s EXCEPT
             !.completionReqs = @ \ {k},
             !.batchPromises =
               [jj \in 1..Len(s.batchPromises) |->
                  IF jj = k - s.i \/ s.batchPromises[jj].state = "pending"
                  THEN Fulfilled(r) ELSE s.batchPromises[jj]]],
          LAMBDA s1 :
            IF AllFulfilled(s1.batchPromises) THEN JoinDiffBatch(s1) ELSE s1)

\* A settled generateDiffSummary; the last one of the batch resumes the loop.
DiffSettled(s, k, outcome) ==
  Bind([s EXCEPT
          !.completionReqs = @ \ {k},
          !.batchPromises =
            Settle(@, k - s.i,
                   ComparisonResult(s.comparisons[k],
                                    generateDiffSummary(outcome)))],
       LAMBDA s1 :
         IF AllFulfilled(s1.batchPromises) THEN JoinDiffBatch(s1) ELSE s1)

\* ------------------------------------------------------------------ actions
Entries(n, base) == [k \in 1..n |-> [id |-> base + k]]

Init ==
  /\ \E n \in 0..MaxLenA : datasetA = Entries(n, 0)
  /\ \E n \in 0..MaxLenB : datasetB = Entries(n, 10)
  /\ pc = "load" /\ awaiting = "readFile" /\ i = 0
  /\ batchPromises = <<>> /\ embeddings = <<>> /\ results = <<>>
  /\ datasetAWithEmbeddings = <<>> /\ datasetBWithEmbeddings = <<>>
  /\ comparisons = <<>> /\ report = <<>> /\ reportFile = <<>>
  /\ embedReqs = {} /\ completionReqs = {}
  /\ pauses = [st \in {"A", "B", "D"} |-> 0]
  /\ embedIssued =
       [k \in ({"A"} \X (1..Len(datasetA))) \cup ({"B"} \X (1..Len(datasetB)))
          |-> 0]
  /\ completionIssued = [k \in 1..Len(datasetA) |-> 0]
  /\ error = "" /\ returned = {}
  /\ embedAnswer = [k \in DOMAIN embedIssued |-> <<>>]
  /\ completionAnswer = [k \in 1..Len(datasetA) |-> <<>>]
  /\ reversed = TRUE

\* loadDatasets resolves; compareDatasets runs up to its next suspension.
LoadDatasets ==
  /\ pc = "load"
  /\ Commit(Bind([Cur EXCEPT !.embeddings = <<>>],
                 LAMBDA s : EmbedLoop(s, "A", 0)))
  /\ UNCHANGED history

\* The embedding service answers request key with vector vec.
EmbeddingResponse(key, vec) ==
  /\ pc \in {"embedA", "embedB"} /\ awaiting = "Promise.all"
  /\ key \in embedReqs
  /\ Commit(EmbeddingFulfilled(Cur, key, vec))
  /\ embedAnswer' = [embedAnswer EXCEPT ![key] = <<[ok |-> TRUE, vec |-> vec]>>]
  /\ reversed' = (reversed /\ \A e \in embedReqs : e[2] <= key[2])
  /\ UNCHANGED completionAnswer

\* The embedding service call of request key throws.
EmbeddingFailure(key) ==
  /\ pc \in {"embedA", "embedB"} /\ awaiting = "Promise.all"
  /\ key \in embedReqs
  /\ Commit(EmbeddingRejected(Cur, key))
  /\ embedAnswer' = [embedAnswer EXCEPT ![key] = <<[ok |-> FALSE]>>]
  /\ reversed' = (reversed /\ \A e \in embedReqs : e[2] <= key[2])
  /\ UNCHANGED completionAnswer

\* A request of the batch settles after the run was aborted: nothing is
\* waiting on its promise any more.
AbandonedResponse(key) ==
  /\ pc = "aborted"
  /\ key \in embedReqs
  /\ embedReqs' = embedReqs \ {key}
  /\ UNCHANGED <<datasetA, datasetB, pc, awaiting, i, batchPromises,
                 embeddings, results, datasetAWithEmbeddings,
                 datasetBWithEmbeddings, comparisons, report, reportFile,
                 completionReqs, pauses, embedIssued, completionIssued, error,
                 returned, history>>

\* The completion service answers request k with the given content.
CompletionResponse(k, content) ==
  /\ pc = "diff" /\ awaiting = "Promise.all"
  /\ k \in completionReqs
  /\ Commit(DiffSettled(Cur, k, [ok |-> TRUE, content |-> content]))
  /\ completionAnswer' =
       [completionAnswer EXCEPT ![k] = <<[ok |-> TRUE, content |-> content]>>]
  /\ reversed' = (reversed /\ \A e \in completionReqs : e <= k)
  /\ UNCHANGED embedAnswer

\* The completion call of request k throws; generateDiffSummary catches.
CompletionFailure(k) ==
  /\ pc = "diff" /\ awaiting = "Promise.all"
  /\ k \in completionReqs
  /\ Commit(DiffSettled(Cur, k, [ok |-> FALSE]))
  /\ completionAnswer' = [completionAnswer EXCEPT ![k] = <<[ok |-> FALSE]>>]
  /\ reversed' = (reversed /\ \A e \in completionReqs : e <= k)
  /\ UNCHANGED embedAnswer

\* The RATE_LIMIT_DELAY timer fires; the loop goes on with the next group.
PauseElapsed ==
  /\ awaiting = "setTimeout"
  /\ Commit(IF pc = "diff"
            THEN DiffLoop(Cur, i + BATCH_SIZE)
            ELSE EmbedLoop(Cur, DatasetOf(pc), i + BATCH_SIZE))
  /\ UNCHANGED history

\* writeFile resolves: the report is on disk and compareDatasets returns.
WriteFileDone ==
  /\ pc = "save" /\ awaiting = "writeFile"
  /\ reportFile' = report
  /\ pc' = "done" /\ awaiting' = "none"
  /\ UNCHANGED <<datasetA, datasetB, i, batchPromises, embeddings, results,
                 datasetAWithEmbeddings, datasetBWithEmbeddings, comparisons,
                 report, embedReqs, completionReqs, pauses, embedIssued,
                 completionIssued, error, returned, history>>

RequestKeys == {"A", "B"} \X (1..(MaxLenA + MaxLenB))

Next ==
  \/ LoadDatasets
  \/ \E key \in RequestKeys : EmbeddingFailure(key)
  \/ \E key \in RequestKeys, vec \in Vectors : EmbeddingResponse(key, vec)
  \/ \E key \in RequestKeys : AbandonedResponse(key)
  \/ \E k \in 1..MaxLenA : CompletionFailure(k)
  \/ \E k \in 1..MaxLenA, content \in Contents : CompletionResponse(k, content)
  \/ PauseElapsed
  \/ WriteFileDone

Spec == Init /\ [][Next]_vars

FairSpec == Spec /\ WF_vars(Next)

\* ---------------------------------------------------------------- properties
CeilDiv(n, b) == (n + b - 1) \div b

StageLen(st) ==
  IF st = "A" THEN Len(datasetA)
  ELSE IF st = "B" THEN Len(datasetB) ELSE Len(comparisons)

\* The result of diff item k, <<r>>, wherever the stage holds it; <<>> if none.
DiffSlot(k) ==
  IF k <= Len(results) THEN <<results[k]>>
  ELSE IF /\ pc = "diff"
          /\ k - i \in 1..Len(batchPromises)
          /\ batchPromises[k - i].state = "fulfilled"
       THEN <<batchPromises[k - i].value>>
       ELSE <<>>

\* The summary the answer recorded for diff item k stands for.
AnsweredSummary(k) ==
  IF completionAnswer[k] = <<>> THEN NoDifferences
  ELSE IF completionAnswer[k][1].ok
       THEN SummaryOf(completionAnswer[k][1].content)
       ELSE ErrorPlaceholder

EmbeddedAsAnswered(ds, out) ==
  /\ Len(out) = Len(Input(ds))
  /\ \A k \in 1..Len(Input(ds)) :
       /\ out[k].id = Input(ds)[k].id
       /\ embedAnswer[<<ds, k>>] # <<>>
       /\ embedAnswer[<<ds, k>>][1].ok
       /\ out[k].embedding = embedAnswer[<<ds, k>>][1].vec

\* C1: a batched stage that returns yields exactly N results, and result k
\* is the one computed from input item k and from the answer to item k's own
\* request, whatever the order in which the requests settled.
C1_PositionalResults ==
  /\ "A" \in returned => EmbeddedAsAnswered("A", datasetAWithEmbeddings)
  /\ "B" \in returned => EmbeddedAsAnswered("B", datasetBWithEmbeddings)
  /\ "D" \in returned =>
       /\ Len(results) = Len(comparisons)
       /\ \A k \in 1..Len(comparisons) :
            /\ results[k].entryA = comparisons[k].entryA
            /\ results[k].match = comparisons[k].match
            /\ results[k].similarityScore = comparisons[k].similarityScore
            /\ results[k].diffSummary = AnsweredSummary(k)

\* All three stages returned after batches of two requests that settled in
\* reverse order.
C1_Witness ==
  /\ "D" \in returned /\ reversed
  /\ Len(datasetA) >= 2 /\ Len(datasetB) >= 2
  /\ completionIssued[1] = 1 /\ completionIssued[2] = 1

Outstanding == Cardinality(embedReqs) + Cardinality(completionReqs)

InFlightWithinGroup ==
  /\ Outstanding <= BATCH_SIZE
  /\ \A key \in embedReqs :
       /\ key[2] \in (i + 1)..(i + BATCH_SIZE)
       /\ pc # "aborted" => pc = StageOf(key[1])
  /\ \A k \in completionReqs : pc = "diff" /\ k \in (i + 1)..(i + BATCH_SIZE)
  /\ awaiting = "setTimeout" => Outstanding = 0

LaunchOnlyAfterBarrier ==
  (embedIssued' # embedIssued \/ completionIssued' # completionIssued) =>
    /\ \A key \in embedReqs' : embedIssued'[key] = embedIssued[key] + 1
    /\ \A k \in completionReqs' : completionIssued'[k] = completionIssued[k] + 1
    /\ i' # 0 => awaiting = "setTimeout"

\* C2: at every moment at most BATCH_SIZE requests are outstanding and they
\* all belong to the running group; a step that issues requests leaves only
\* the requests it issued outstanding, and a group after the first one of a
\* stage is launched only by the elapsing inter-batch pause.
C2_BatchBarrier == []InFlightWithinGroup /\ [][LaunchOnlyAfterBarrier]_vars

\* A second group is in flight at full width.
C2_Witness ==
  /\ pc = "diff" /\ i = BATCH_SIZE /\ completionReqs # {}
  /\ pauses["A"] = 1

\* C3 as stated: a stage that returned took ceil(N/B) - 1 pauses.
C3_PausesAsStated ==
  \A st \in returned : pauses[st] = CeilDiv(StageLen(st), BATCH_SIZE) - 1

\* C3 amended: a stage that returned took ceil(N/B) - 1 pauses when N >= 1
\* and no pause when N = 0.
C3_PauseCount ==
  \A st \in returned :
    pauses[st] = IF StageLen(st) = 0 THEN 0
                 ELSE CeilDiv(StageLen(st), BATCH_SIZE) - 1

\* Stages of one group and stages of two groups have returned.
C3_Witness ==
  /\ returned = {"A", "B", "D"}
  /\ pauses["A"] = 1 /\ pauses["D"] = 1 /\ pauses["B"] = 0
  /\ Len(datasetB) = BATCH_SIZE

\* C4: a pair whose similarityScore is exactly 1 never has a completion
\* request issued and its result, once there, says "No differences".
C4_IdentityShortCircuit ==
  \A k \in 1..Len(comparisons) :
    comparisons[k].similarityScore = 1 =>
      /\ completionIssued[k] = 0
      /\ k \notin completionReqs
      /\ DiffSlot(k) # <<>> => DiffSlot(k)[1].diffSummary = NoDifferences
      /\ reportFile # <<>> =>
           reportFile[1].results[k].diffSummary = NoDifferences

\* A written report holds an identical pair next to a summarised one.
C4_Witness ==
  /\ pc = "done" /\ reportFile # <<>>
  /\ \E k, m \in 1..Len(comparisons) :
       /\ comparisons[k].similarityScore = 1
       /\ comparisons[m].similarityScore # 1
       /\ completionIssued[m] = 1

CompletionFailed(k) == completionAnswer[k] # <<>> /\ ~completionAnswer[k][1].ok

DegradedNotAborted ==
  /\ \A k \in DOMAIN completionAnswer :
       CompletionFailed(k) =>
         /\ pc # "aborted"
         /\ DiffSlot(k) # <<>>
         /\ DiffSlot(k)[1].diffSummary = ErrorPlaceholder
         /\ reportFile # <<>> =>
              reportFile[1].results[k].diffSummary = ErrorPlaceholder
  /\ pc = "done" =>
       /\ reportFile # <<>>
       /\ Len(reportFile[1].results) = Len(comparisons)
       /\ \A k \in 1..Len(comparisons) :
            comparisons[k].similarityScore # 1 => completionAnswer[k] # <<>>

ReportWritten == pc = "done" /\ reportFile # <<>>

\* C5: an item whose completion call failed holds the placeholder text from
\* then on, the run is not aborted, and it goes on to write the report (a
\* recorded failure stays recorded, so "eventually always" says that); a
\* written report has an answer, failed or not, for every pair whose score
\* is not 1, so if every call fails every such pair has the placeholder.
C5_DegradeOnCompletionFailure ==
  /\ []DegradedNotAborted
  /\ <>[]((\E k \in DOMAIN completionAnswer : CompletionFailed(k)) =>
            ReportWritten)

\* Every completion call of a run of two groups failed, report written.
C5_Witness ==
  /\ ReportWritten
  /\ Len(comparisons) = MaxLenA
  /\ \A k \in 1..Len(comparisons) :
       /\ CompletionFailed(k)
       /\ reportFile[1].results[k].diffSummary = ErrorPlaceholder

EmbeddingFailed(key) == embedAnswer[key] # <<>> /\ ~embedAnswer[key][1].ok

\* C6: once an embedding call has failed the run is aborted: no matching
\* was or is performed, no completion request is issued and no report is
\* built or written.
C6_FailFastOnEmbeddingFailure ==
  (\E key \in DOMAIN embedAnswer : EmbeddingFailed(key)) =>
    /\ pc = "aborted" /\ error = "embedding failed"
    /\ "B" \notin returned /\ comparisons = <<>>
    /\ \A k \in DOMAIN completionIssued : completionIssued[k] = 0
    /\ completionReqs = {}
    /\ report = <<>> /\ reportFile = <<>>

\* A datasetB request failed after the datasetA stage ran two groups.
C6_Witness ==
  /\ pc = "aborted" /\ "A" \in returned /\ pauses["A"] = 1
  /\ \E k \in 1..Len(datasetB) : EmbeddingFailed(<<"B", k>>)

\* C7 as stated: with exactly one target, findBestMatch returns that target
\* for every source entry, whatever the score.
C7_SingleTargetAlwaysMatched ==
  ("B" \in returned /\ Len(datasetBWithEmbeddings) = 1) =>
    \A k \in 1..Len(datasetAWithEmbeddings) :
      LET r == findBestMatch(datasetAWithEmbeddings[k], datasetBWithEmbeddings)
      IN /\ ~r.thrown
         /\ r.match = datasetBWithEmbeddings[1]

\* C8 as stated: with a non-empty target sequence, findBestMatch returns the
\* first target whose score is the maximum over all targets.
C8_ReturnsFirstMaximum ==
  ("B" \in returned /\ Len(datasetBWithEmbeddings) >= 1) =>
    \A k \in 1..Len(datasetAWithEmbeddings) :
      LET a == datasetAWithEmbeddings[k]
          tgts == datasetBWithEmbeddings
          score(n) == cosineSimilarity(a.embedding, tgts[n].embedding)
          r == findBestMatch(a, tgts)
      IN /\ ~r.thrown
         /\ \E m \in 1..Len(tgts) :
              /\ r.match = tgts[m] /\ r.score = score(m)
              /\ \A n \in 1..Len(tgts) : score(n) <= score(m)
              /\ \A n \in 1..(m - 1) : score(n) < score(m)

\* C9: with an empty target sequence findBestMatch throws for every source
\* entry; the run ends with 'No match found' and no pair is produced.
C9_EmptyTargetsThrow ==
  ("B" \in returned /\ Len(datasetBWithEmbeddings) = 0) =>
    /\ \A k \in 1..Len(datasetAWithEmbeddings) :
         findBestMatch(datasetAWithEmbeddings[k], datasetBWithEmbeddings).thrown
    /\ Len(datasetAWithEmbeddings) >= 1 =>
         error = "No match found" /\ comparisons = <<>>

\* A single source entry met an empty target sequence.
C9_Witness ==
  /\ "B" \in returned /\ Len(datasetB) = 0 /\ Len(datasetAWithEmbeddings) = 1
  /\ error = "No match found"

NoCompletionIssued == \A k \in DOMAIN completionIssued : completionIssued[k] = 0

\* C10 as stated: matching reached with datasetB empty aborts the run, for
\* every datasetA.
C10_EmptyTargetAlwaysFatal ==
  ("B" \in returned /\ Len(datasetB) = 0) =>
    /\ pc = "aborted"
    /\ NoCompletionIssued
    /\ report = <<>> /\ reportFile = <<>>

\* C10 amended: matching reached with datasetB empty aborts the run when
\* datasetA is not empty (no completion request, no report); when datasetA
\* is empty too, findBestMatch is never called and the run goes on to write
\* a report of zero comparisons.
C10_EmptyTargetFatal ==
  ("B" \in returned /\ Len(datasetB) = 0) =>
    IF Len(datasetA) >= 1
    THEN /\ pc = "aborted" /\ error = "No match found"
         /\ NoCompletionIssued /\ completionReqs = {}
         /\ report = <<>> /\ reportFile = <<>>
    ELSE /\ pc \in {"save", "done"}
         /\ report = <<[totalComparisons |-> 0, results |-> <<>>]>>
         /\ pc = "done" => reportFile = report

\* A datasetA of two groups was embedded and then met an empty datasetB.
C10_Witness ==
  /\ pc = "aborted" /\ error = "No match found"
  /\ Len(datasetB) = 0 /\ Len(datasetAWithEmbeddings) = MaxLenA

\* The state of diff item k in the per-item state machine.
ItemState(k) ==
  IF DiffSlot(k) = <<>>
  THEN IF k \in completionReqs THEN "RequestSent" ELSE "Pending"
  ELSE IF completionIssued[k] = 0 THEN "Skipped-Identity"
       ELSE IF CompletionFailed(k) THEN "Failed-Substituted" ELSE "Succeeded"

Terminal == {"Skipped-Identity", "Succeeded", "Failed-Substituted"}

ItemStatesSound ==
  \A k \in 1..Len(comparisons) :
    /\ completionIssued[k] <= 1
    /\ k \in completionReqs => DiffSlot(k) = <<>>
    /\ ItemState(k) = "Skipped-Identity" => comparisons[k].similarityScore = 1
    /\ "D" \in returned => ItemState(k) \in Terminal

ItemStep ==
  \A k \in 1..Len(comparisons) :
    /\ ItemState(k) \in Terminal =>
         ItemState(k)' = ItemState(k) /\ DiffSlot(k)' = DiffSlot(k)
    /\ ItemState(k) = "Pending" =>
         ItemState(k)' \in {"Pending", "RequestSent", "Skipped-Identity"}
    /\ ItemState(k) = "RequestSent" =>
         ItemState(k)' \in {"RequestSent", "Succeeded", "Failed-Substituted"}

\* C11: a diff item moves Pending -> Skipped-Identity, or Pending ->
\* RequestSent -> Succeeded or Failed-Substituted; once terminal, its state
\* and its result never change; when the stage has returned every item is
\* terminal; no item ever has more than one completion request issued.
C11_ItemStateMachine == []ItemStatesSound /\ [][ItemStep]_vars

\* A finished run with one item in each of the three terminal states.
C11_Witness ==
  /\ pc = "done"
  /\ \A st \in Terminal : \E k \in 1..Len(comparisons) : ItemState(k) = st

ReportShape(r) ==
  /\ Len(r.results) = Len(datasetA)
  /\ \A k \in 1..Len(datasetA) : r.results[k].entryA.id = datasetA[k].id
  /\ r.totalComparisons = Len(r.results)

ReportWellShaped ==
  /\ report # <<>> => ReportShape(report[1])
  /\ reportFile # <<>> => ReportShape(reportFile[1]) /\ reportFile = report

WrittenOnce ==
  /\ reportFile' # reportFile => reportFile = <<>> /\ pc = "save"
  /\ pc = "done" => pc' = "done"

\* C12: a built or written report has exactly one result per datasetA entry,
\* in datasetA's order, and totalComparisons is the number of results; the
\* file is written only from the save step and never rewritten afterwards.
C12_ReportShape == []ReportWellShaped /\ [][WrittenOnce]_vars

\* A report of the largest datasetA is on disk.
C12_Witness ==
  /\ reportFile # <<>>
  /\ Len(datasetA) = MaxLenA /\ Len(datasetB) < MaxLenA
  /\ reportFile[1].totalComparisons = MaxLenA

\* The sum of f over its domain.
RECURSIVE SumOver(_, _)
SumOver(f, S) ==
  IF S = {} THEN 0
  ELSE LET x == CHOOSE y \in S : TRUE IN f[x] + SumOver(f, S \ {x})

EmbeddingRequests == SumOver(embedIssued, DOMAIN embedIssued)
CompletionRequests == SumOver(completionIssued, DOMAIN completionIssued)

NonIdenticalPairs ==
  {k \in 1..Len(comparisons) : comparisons[k].similarityScore # 1}

\* C13: no entry ever has more than one embedding request; once both
\* embedding stages have returned (no embedding call failed) every entry has
\* had exactly one, |datasetA| + |datasetB| in total; once the diff stage has
\* returned, the completion requests are exactly one per matched pair whose
\* score is not 1, hence at most |datasetA|; a run that ends in the matcher
\* has no pair and no completion request.
C13_RequestCounts ==
  /\ \A key \in DOMAIN embedIssued : embedIssued[key] <= 1
  /\ "B" \in returned =>
       /\ \A key \in DOMAIN embedIssued : embedIssued[key] = 1
       /\ EmbeddingRequests = Len(datasetA) + Len(datasetB)
  /\ CompletionRequests <= Cardinality(NonIdenticalPairs)
  /\ "D" \in returned =>
       /\ \A k \in 1..Len(comparisons) :
            completionIssued[k] = IF k \in NonIdenticalPairs THEN 1 ELSE 0
       /\ CompletionRequests = Cardinality(NonIdenticalPairs)
       /\ CompletionRequests <= Len(datasetA)

\* A finished run of the largest datasets with exactly one identical pair.
C13_Witness ==
  /\ pc = "done"
  /\ EmbeddingRequests = MaxLenA + MaxLenB
  /\ CompletionRequests = MaxLenA - 1

\* C14 as stated: whenever a stage has proceeded past a batch in any way
\* (returned, paused, launched the next group, or propagated a failure), no
\* request of the batch is still outstanding.
C14_BatchSettledBeforeProceeding ==
  awaiting # "Promise.all" => Outstanding = 0

\* C14 amended: a stage returns, pauses or starts the next group only when
\* every request of the batch has completed, and the diff stage never goes
\* on with a request outstanding; the embedding stage propagates the first
\* failure of a batch at once, so after the abort the other requests of
\* that one batch (at most BATCH_SIZE - 1, never a completion request) may
\* still be outstanding.
C14_NoCancellation ==
  /\ (pc # "aborted" /\ awaiting # "Promise.all") => Outstanding = 0
  /\ completionReqs # {} => pc = "diff" /\ awaiting = "Promise.all"
  /\ (pc = "aborted" /\ embedReqs # {}) =>
       /\ error = "embedding failed"
       /\ Cardinality(embedReqs) <= BATCH_SIZE - 1
       /\ \E failed \in DOMAIN embedAnswer :
            /\ EmbeddingFailed(failed)
            /\ \A key \in embedReqs :
                 /\ key[1] = failed[1]
                 /\ key[2] \in (i + 1)..(i + BATCH_SIZE)
                 /\ failed[2] \in (i + 1)..(i + BATCH_SIZE)

\* The run was aborted by an embedding failure while another request of the
\* same batch was still in flight.
C14_Witness ==
  /\ pc = "aborted" /\ error = "embedding failed"
  /\ embedReqs # {}

IssuedFor(ds) == \E key \in DOMAIN embedIssued : key[1] = ds /\ embedIssued[key] > 0

\* Every request of dataset ds was issued once, was answered with a vector
\* and is no longer in flight.
EmbeddingsComplete(ds) ==
  \A k \in 1..Len(Input(ds)) :
    /\ embedIssued[<<ds, k>>] = 1
    /\ <<ds, k>> \notin embedReqs
    /\ embedAnswer[<<ds, k>>] # <<>> /\ embedAnswer[<<ds, k>>][1].ok

\* C15: no datasetB embedding request is issued before every datasetA
\* embedding request has completed; no completion request is issued before
\* the embeddings of both datasets and a match for every datasetA entry are
\* there; the report is written only when every diff item is terminal.
C15_PipelineOrder ==
  /\ IssuedFor("B") =>
       /\ "A" \in returned /\ EmbeddingsComplete("A")
       /\ Len(datasetAWithEmbeddings) = Len(datasetA)
  /\ ~NoCompletionIssued =>
       /\ {"A", "B"} \subseteq returned
       /\ EmbeddingsComplete("A") /\ EmbeddingsComplete("B")
       /\ Len(datasetBWithEmbeddings) = Len(datasetB)
       /\ Len(comparisons) = Len(datasetA)
  /\ (report # <<>> \/ reportFile # <<>>) =>
       /\ ~IssuedFor("B") => datasetB = <<>>
       /\ EmbeddingsComplete("A") /\ EmbeddingsComplete("B")
       /\ Len(comparisons) = Len(datasetA)
       /\ completionReqs = {}
       /\ \A k \in 1..Len(comparisons) : ItemState(k) \in Terminal

\* The report is on disk after requests of all three stages were issued.
C15_Witness ==
  /\ reportFile # <<>>
  /\ IssuedFor("A") /\ IssuedFor("B") /\ ~NoCompletionIssued

\* The slot of item k holds item k's own pair and the summary that item k's
\* own answer (or its identity short-circuit) stands for.
SlotIsOwn(k) ==
  DiffSlot(k) # <<>> =>
    /\ DiffSlot(k)[1].entryA = comparisons[k].entryA
    /\ DiffSlot(k)[1].match = comparisons[k].match
    /\ DiffSlot(k)[1].similarityScore = comparisons[k].similarityScore
    /\ DiffSlot(k)[1].diffSummary = AnsweredSummary(k)

\* A step in which the request of item j settles writes no slot of another
\* item that has a request of its own, and overwrites no slot at all.
WritesOwnSlotOnly ==
  \A j \in 1..Len(comparisons) :
    completionAnswer'[j] # completionAnswer[j] =>
      /\ comparisons' = comparisons
      /\ \A k \in (1..Len(comparisons)) \ {j} :
           /\ completionAnswer'[k] = completionAnswer[k]
           /\ DiffSlot(k) # <<>> => DiffSlot(k)' = DiffSlot(k)
           /\ completionIssued[k] > 0 => DiffSlot(k)' = DiffSlot(k)

\* C16: every result slot carries entryA, match and similarityScore of its
\* own input comparison and a diffSummary fixed by its own item alone; the
\* success, failure or completion order of another item never writes it.
C16_TaskIsolation ==
  [](\A k \in 1..Len(comparisons) : SlotIsOwn(k)) /\ [][WritesOwnSlotOnly]_vars

\* A finished run in which two items of one batch had requests settle out of
\* input order, one failing and the other succeeding.
C16_Witness ==
  /\ pc = "done"
  /\ \E j, k \in 1..Len(comparisons) :
       /\ j # k /\ CeilDiv(j, BATCH_SIZE) = CeilDiv(k, BATCH_SIZE)
       /\ CompletionFailed(j)
       /\ completionAnswer[k] # <<>> /\ completionAnswer[k][1].ok
       /\ results[j].diffSummary = ErrorPlaceholder
       /\ results[k].diffSummary # ErrorPlaceholder
  /\ reversed

Terminated == pc \in {"done", "aborted"}

\* C17: when every issued request is eventually answered and every pause
\* eventually elapses, the run eventually ends, with the report written or
\* aborted on a fatal error, and stays ended.
C17_Termination ==
  <>[](Terminated /\ (pc = "done" => reportFile # <<>>)
                  /\ (pc = "aborted" => error # "" /\ reportFile = <<>>))

\* A run that ended with the report written after a pause in the datasetA
\* embedding stage and a pause in the diff stage.
C17_Witness ==
  /\ pc = "done" /\ reportFile # <<>>
  /\ pauses["A"] >= 1 /\ pauses["D"] >= 1
  /\ Outstanding = 0

\* The completion request of item k succeeded without content.
AnsweredWithoutContent(k) ==
  /\ completionAnswer[k] # <<>> /\ completionAnswer[k][1].ok
  /\ completionAnswer[k][1].content = NoContent

\* C18: a result's diffSummary is null only when the item's completion
\* request succeeded and returned no content; an item whose request failed
\* has the placeholder text, an item of score exactly 1 has "No
\* differences", and neither of those is null.
C18_NullSummaryOnlyWithoutContent ==
  \A k \in 1..Len(comparisons) :
    DiffSlot(k) # <<>> =>
      /\ DiffSlot(k)[1].diffSummary = NULL => AnsweredWithoutContent(k)
      /\ CompletionFailed(k) =>
           /\ DiffSlot(k)[1].diffSummary = ErrorPlaceholder
           /\ DiffSlot(k)[1].diffSummary # NULL
      /\ comparisons[k].similarityScore = 1 =>
           /\ DiffSlot(k)[1].diffSummary = NoDifferences
           /\ DiffSlot(k)[1].diffSummary # NULL

\* A written report with a null summary, a placeholder summary of a failed
\* request and a "No differences" summary of an exact match.
C18_Witness ==
  /\ reportFile # <<>>
  /\ \E n, f, e \in 1..Len(reportFile[1].results) :
       /\ reportFile[1].results[n].diffSummary = NULL
       /\ AnsweredWithoutContent(n)
       /\ reportFile[1].results[f].diffSummary = ErrorPlaceholder
       /\ CompletionFailed(f)
       /\ reportFile[1].results[e].diffSummary = NoDifferences
       /\ comparisons[e].similarityScore = 1

====
